---- MODULE Spec2Model ----
(***************************************************************************)
(* The EVMC bridge of core/vm/evmc.go: the host context an external EVMC   *)
(* engine calls back into (storage writes with refund accounting,          *)
(* self-destruct, block-hash window), the revision resolver getRevision,   *)
(* and the depth / read-only bookkeeping of EVMC.Run.                      *)
(***************************************************************************)
EXTENDS Integers, Sequences, FiniteSets, TLC

VARIABLES
    conf,         \* env.ChainConfig(): transition name -> *uint64 (<<>> is nil)
    blockNumber,  \* env.Context.BlockNumber
    committed,    \* StateDB: slot values at the start of the transaction
    storage,      \* StateDB: current slot values
    refund,       \* StateDB: the refund counter
    balance,      \* StateDB: account balances
    suicided,     \* StateDB: accounts marked self-destructed
    clearCredit,  \* per slot: clear-refunds added by SetStorage and not yet subtracted
    sdCalls,      \* per address: number of Selfdestruct calls so far
    sdRefunds,    \* per address: number of self-destruct refunds granted so far
    nops,         \* number of host calls made in this transaction
    depth,        \* env.depth
    readOnly,     \* evm.readOnly of the bridge for CapabilityEVM1
    ewasmReadOnly, \* evm.readOnly of the bridge for CapabilityEWASM
    interpreters, \* the capabilities for which the EVM has a bridge
    stack,        \* the active Run invocations, outermost first
    evmModule,    \* the process-wide EVM module handle (<<>> is nil)
    ewasmModule,  \* the process-wide Ewasm module handle (<<>> is nil)
    aborted,      \* the process was terminated by a panic of initEVMC
    last,         \* the operation that completed last
    prev          \* the host or resolver call that completed before the last one

vars == <<conf, blockNumber, committed, storage, refund, balance, suicided,
          clearCredit, sdCalls, sdRefunds, nops, depth, readOnly,
          ewasmReadOnly, interpreters, stack,
          evmModule, ewasmModule, aborted, last, prev>>

hostVars == <<committed, storage, refund, balance, suicided, clearCredit,
              sdCalls, sdRefunds, nops>>
runVars == <<depth, readOnly, ewasmReadOnly, interpreters, stack>>
loadVars == <<evmModule, ewasmModule, aborted>>

(***************************************************************************)
(* Bounds of the model.                                                    *)
(***************************************************************************)
MaxOps == 4        \* host calls per transaction
MaxDepth == 3      \* nesting of Run invocations

Addrs == {"a1", "a2"}
Keys == {"k1"}
Slots == Addrs \X Keys
ZeroHash == 0                        \* common.Hash{}
Values == {ZeroHash, 1, 2}           \* slot values
NoOp == [op |-> "none"]

(***************************************************************************)
(* params/vars gas constants used by the host context.                     *)
(***************************************************************************)
SstoreRefundGas == 15000
NetSstoreClearRefund == 15000
NetSstoreResetRefund == 4800
NetSstoreResetClearRefund == 19800
SstoreSetGasEIP2200 == 20000
SstoreResetGasEIP2200 == 5000
SloadGasEIP2200 == 800
SelfdestructRefundGas == 24000

(***************************************************************************)
(* Chain configuration.                                                    *)
(***************************************************************************)
Transitions == {"EIP7", "EIP150", "EIP155", "EIP198", "EIP145",
                "EIP1283Disable", "EIP1884", "EIP2200"}

\* conf.IsEnabled(fn, n): fn() is non-nil and not above n.
IsEnabled(c, t, n) == c[t] # <<>> /\ c[t][1] <= n

(***************************************************************************)
(* The StateDB operations the host context consumes.                       *)
(***************************************************************************)
GetState(st, addr, key) == st[<<addr, key>>]
GetCommittedState(addr, key) == committed[<<addr, key>>]
SetState(st, addr, key, value) == [st EXCEPT ![<<addr, key>>] = value]
AddRefund(r, gas) == r + gas
SubRefund(r, gas) == r - gas
HasSuicided(s, addr) == addr \in s
GetBalance(bal, addr) == bal[addr]
AddBalance(bal, addr, amount) == [bal EXCEPT ![addr] = @ + amount]
\* Suicide marks the account and zeroes its balance.
SuicideBalance(bal, addr) == [bal EXCEPT ![addr] = 0]
SuicideMark(s, addr) == s \cup {addr}

(***************************************************************************)
(* hostContext.GetStorage                                                  *)
(***************************************************************************)
GetStorage(addr, key) == GetState(storage, addr, key)

(***************************************************************************)
(* hostContext.SetStorage, in the pieces the code computes it in.          *)
(***************************************************************************)
\* line 118: the early return
IsUnchanged_NoEarlyReturn(oldValue, value) == FALSE
IsUnchanged(oldValue, value) == oldValue = value

\* lines 117-125: the slot after the call
SetStorageState_NotOnDelete(addr, key, value) ==
    IF IsUnchanged(GetState(storage, addr, key), value) \/ value = ZeroHash
    THEN storage
    ELSE SetState(storage, addr, key, value)
SetStorageState(addr, key, value) ==
    IF IsUnchanged(GetState(storage, addr, key), value)
    THEN storage
    ELSE SetState(storage, addr, key, value)

\* lines 132-137
hasEIP2200 == IsEnabled(conf, "EIP2200", blockNumber)
hasEIP1884 == IsEnabled(conf, "EIP1884", blockNumber)
hasNetStorageCostEIP == hasEIP2200 /\ hasEIP1884

\* lines 132-137 for the configuration c at block n
NetModeFor(c, n) == IsEnabled(c, "EIP2200", n) /\ IsEnabled(c, "EIP1884", n)

\* lines 151-157 for the configuration c at block n:
\* <<resetClearRefund, cleanRefund>>
ResetRefundsFor(c, n) ==
    IF IsEnabled(c, "EIP2200", n)
    THEN <<SstoreSetGasEIP2200 - SloadGasEIP2200,
           SstoreResetGasEIP2200 - SloadGasEIP2200>>
    ELSE <<NetSstoreResetClearRefund, NetSstoreResetRefund>>

\* lines 151-157
resetClearRefund == ResetRefundsFor(conf, blockNumber)[1]
cleanRefund == ResetRefundsFor(conf, blockNumber)[2]

\* lines 138-149: legacy classification, <<status, refund>>
LegacyStorage_NoRefund(r, oldValue, value) ==
    IF oldValue = ZeroHash THEN <<"Added", r>>
    ELSE IF value = ZeroHash THEN <<"Deleted", r>>
    ELSE <<"Modified", r>>
LegacyStorage(r, oldValue, value) ==
    IF oldValue = ZeroHash THEN <<"Added", r>>
    ELSE IF value = ZeroHash THEN <<"Deleted", AddRefund(r, SstoreRefundGas)>>
    ELSE <<"Modified", r>>

\* line 159: the slot has not been changed in this transaction
SlotIsClean_Always(original, current) == TRUE
SlotIsClean(original, current) == original = current

\* lines 159-168: the slot is clean, <<status, refund>>
CleanStorage(r, original, value) ==
    IF original = ZeroHash THEN <<"Added", r>>
    ELSE IF value = ZeroHash THEN <<"Deleted", AddRefund(r, NetSstoreClearRefund)>>
    ELSE <<"Modified", r>>

\* lines 169-175: the clear-refund adjustment of a dirty slot
DirtyClearRefund_Swapped(r, original, current, value) ==
    IF original # ZeroHash
    THEN IF current = ZeroHash THEN AddRefund(r, NetSstoreClearRefund)
         ELSE IF value = ZeroHash THEN SubRefund(r, NetSstoreClearRefund)
         ELSE r
    ELSE r
DirtyClearRefund(r, original, current, value) ==
    IF original # ZeroHash
    THEN IF current = ZeroHash THEN SubRefund(r, NetSstoreClearRefund)
         ELSE IF value = ZeroHash THEN AddRefund(r, NetSstoreClearRefund)
         ELSE r
    ELSE r

\* lines 176-182: the reset refund of a dirty slot
DirtyResetRefund_NoReset(r, original, value) == r
DirtyResetRefund(r, original, value) ==
    IF original = value
    THEN IF original = ZeroHash THEN AddRefund(r, resetClearRefund)
         ELSE AddRefund(r, cleanRefund)
    ELSE r

\* lines 116-184: <<status, refund>> of SetStorage(addr, key, value)
SetStorageOutcome(addr, key, value) ==
    LET oldValue == GetState(storage, addr, key)
        current  == GetState(storage, addr, key)
        original == GetCommittedState(addr, key)
    IN  IF IsUnchanged(oldValue, value) THEN <<"Unchanged", refund>>
        ELSE IF ~hasNetStorageCostEIP THEN LegacyStorage(refund, oldValue, value)
        ELSE IF SlotIsClean(original, current)
             THEN CleanStorage(refund, original, value)
        ELSE <<"ModifiedAgain",
               DirtyResetRefund(DirtyClearRefund(refund, original, current, value),
                                original, value)>>

\* The change SetStorage makes to the number of outstanding clear-refunds of
\* the slot: +1 for each AddRefund(NetSstoreClearRefund), -1 for each SubRefund.
ClearCreditDelta(addr, key, value) ==
    LET current  == GetState(storage, addr, key)
        original == GetCommittedState(addr, key)
        r0 == 0
        r1 == IF IsUnchanged(current, value) \/ ~hasNetStorageCostEIP THEN r0
              ELSE IF SlotIsClean(original, current)
                   THEN CleanStorage(r0, original, value)[2]
              ELSE DirtyClearRefund(r0, original, current, value)
    IN  r1 \div NetSstoreClearRefund

SetStorage(addr, key, value) ==
    /\ nops < MaxOps
    /\ LET out == SetStorageOutcome(addr, key, value)
       IN  /\ storage' = SetStorageState(addr, key, value)
           /\ refund' = out[2]
           /\ clearCredit' = [clearCredit EXCEPT ![<<addr, key>>] =
                                 @ + ClearCreditDelta(addr, key, value)]
           /\ last' = [op |-> "SetStorage", addr |-> addr, key |-> key,
                       value |-> value, status |-> out[1],
                       committed |-> GetCommittedState(addr, key),
                       current |-> GetState(storage, addr, key),
                       refundBefore |-> refund, refundAfter |-> out[2],
                       storageBefore |-> storage]
    /\ prev' = last
    /\ nops' = nops + 1
    /\ UNCHANGED <<loadVars, conf, blockNumber, committed, balance, suicided, sdCalls,
                   sdRefunds, runVars>>

(***************************************************************************)
(* hostContext.Selfdestruct                                                *)
(***************************************************************************)
\* lines 207-209
SelfdestructRefund_Always(r, s, addr) == AddRefund(r, SelfdestructRefundGas)
SelfdestructRefund(r, s, addr) ==
    IF ~HasSuicided(s, addr) THEN AddRefund(r, SelfdestructRefundGas) ELSE r

Selfdestruct(addr, beneficiary) ==
    /\ nops < MaxOps
    /\ LET amount == GetBalance(balance, addr)
           r == SelfdestructRefund(refund, suicided, addr)
       IN  /\ refund' = r
           /\ balance' = SuicideBalance(AddBalance(balance, beneficiary, amount), addr)
           /\ suicided' = SuicideMark(suicided, addr)
           /\ sdCalls' = [sdCalls EXCEPT ![addr] = @ + 1]
           /\ sdRefunds' = [sdRefunds EXCEPT ![addr] =
                               @ + (IF r = refund THEN 0 ELSE 1)]
           /\ last' = [op |-> "Selfdestruct", addr |-> addr,
                       beneficiary |-> beneficiary, credited |-> amount,
                       wasSuicided |-> HasSuicided(suicided, addr),
                       balanceBefore |-> balance,
                       refundBefore |-> refund, refundAfter |-> r]
    /\ prev' = last
    /\ nops' = nops + 1
    /\ UNCHANGED <<loadVars, conf, blockNumber, committed, storage, clearCredit, runVars>>

(***************************************************************************)
(* hostContext.GetBlockHash                                                *)
(***************************************************************************)
Limb == 2^16
\* uint64(number) of an int64, as four 16-bit limbs, most significant first
\* (two's complement: a negative number wraps to 2^64 + number).
Uint64(number) ==
    LET q1 == number \div Limb
        q2 == q1 \div Limb
        q3 == q2 \div Limb
    IN  <<q3 % Limb, q2 % Limb, q1 % Limb, number % Limb>>

\* env.Context.GetHash(u): the hash the chain holds for block number u.
GetHash(u) == u
\* common.Hash{} as a block hash.
NoHash == <<>>

\* line 229: the window test
InHashWindow_OffByOne(number, b) == number > (b - 256) /\ number < b
InHashWindow(number, b) == number >= (b - 256) /\ number < b

\* lines 229-230: the argument of the GetHash call, if it is made
HashLookup(number, b) ==
    IF InHashWindow(number, b) THEN <<Uint64(number)>> ELSE <<>>

\* lines 227-233
BlockHashResult(number, b) ==
    IF InHashWindow(number, b) THEN GetHash(Uint64(number)) ELSE NoHash

GetBlockHash(number) ==
    /\ last' = [op |-> "GetBlockHash", number |-> number, b |-> blockNumber,
                lookup |-> HashLookup(number, blockNumber),
                result |-> BlockHashResult(number, blockNumber)]
    /\ prev' = last
    /\ UNCHANGED <<loadVars, conf, blockNumber, hostVars, runVars>>

(***************************************************************************)
(* getRevision                                                             *)
(***************************************************************************)
\* evmc.Revision, oldest first.
RevisionOrder == <<"Frontier", "Homestead", "TangerineWhistle", "SpuriousDragon",
                   "Byzantium", "Constantinople", "Petersburg", "Istanbul">>
RevOrd(r) == CHOOSE i \in 1..Len(RevisionOrder) : RevisionOrder[i] = r

\* lines 302-327, with the EIP150 case tried before the EIP155 case
getRevision_Swapped(c, n) ==
    IF IsEnabled(c, "EIP1884", n) THEN "Istanbul"
    ELSE IF IsEnabled(c, "EIP1283Disable", n) THEN "Petersburg"
    ELSE IF IsEnabled(c, "EIP145", n) THEN "Constantinople"
    ELSE IF IsEnabled(c, "EIP198", n) THEN "Byzantium"
    ELSE IF IsEnabled(c, "EIP150", n) THEN "TangerineWhistle"
    ELSE IF IsEnabled(c, "EIP155", n) THEN "SpuriousDragon"
    ELSE IF IsEnabled(c, "EIP7", n) THEN "Homestead"
    ELSE "Frontier"

\* lines 302-327
getRevision(c, n) ==
    IF IsEnabled(c, "EIP1884", n) THEN "Istanbul"
    ELSE IF IsEnabled(c, "EIP1283Disable", n) THEN "Petersburg"
    ELSE IF IsEnabled(c, "EIP145", n) THEN "Constantinople"
    ELSE IF IsEnabled(c, "EIP198", n) THEN "Byzantium"
    ELSE IF IsEnabled(c, "EIP155", n) THEN "SpuriousDragon"
    ELSE IF IsEnabled(c, "EIP150", n) THEN "TangerineWhistle"
    ELSE IF IsEnabled(c, "EIP7", n) THEN "Homestead"
    ELSE "Frontier"

\* The environment of block n resolves its revision.
ResolveRevision(n) ==
    /\ blockNumber' = n
    /\ last' = [op |-> "getRevision", n |-> n, rev |-> getRevision(conf, n)]
    /\ prev' = last
    /\ UNCHANGED <<loadVars, conf, hostVars, runVars>>

(***************************************************************************)
(* EVMC.Run                                                                *)
(***************************************************************************)
Capabilities == {"CapabilityEVM1", "CapabilityEWASM"}
Outcomes == {"Success", "Revert", "Failure", "Internal"}
Outputs == {<<>>, <<1>>}
GasValues == {0, 1}

\* line 332: the deferred decrement
DeferredDepth_Missing(d) == d
DeferredDepth(d) == d - 1

\* line 347: whether this Run sets the flag (and defers clearing it)
RunSetsReadOnly_Always(readOnlyArg, flag) == readOnlyArg
RunSetsReadOnly(readOnlyArg, flag) == readOnlyArg /\ ~flag

\* line 349: the deferred clearing, run only by the frame that registered it
DeferredReadOnly(frame, flag) == IF frame.setReadOnly THEN FALSE ELSE flag

\* line 43: the readOnly field of the bridge with capability cap
Flag(cap) == IF cap = "CapabilityEVM1" THEN readOnly ELSE ewasmReadOnly

\* lines 380-387: the capability code requires, by its preamble
RequiredCapability(wasm) ==
    IF wasm THEN "CapabilityEWASM" ELSE "CapabilityEVM1"
CanRun(cap, wasm) == cap = RequiredCapability(wasm)

\* line 357: the depth handed to the engine
EngineDepth_NoAdjust(d) == d
EngineDepth(d) == d - 1

\* lines 339-343
RunKind(codeSize) == IF codeSize = 0 THEN "Create" ELSE "Call"

\* line 335
CodeIsEmpty_Never(codeLen) == FALSE
CodeIsEmpty(codeLen) == codeLen = 0

\* line 366: contract.Gas = uint64(gasLeft)
ContractGas(gasLeft) == Uint64(gasLeft)

\* lines 368-376: <<ret, err>>
RunResult_NoWrap(outcome, output) ==
    IF outcome = "Revert" THEN <<output, "ErrExecutionReverted">>
    ELSE IF outcome = "Internal" THEN <<output, "Internal">>
    ELSE IF outcome = "Failure" THEN <<output, "Failure">>
    ELSE <<output, "nil">>
RunResult(outcome, output) ==
    IF outcome = "Revert" THEN <<output, "ErrExecutionReverted">>
    ELSE IF outcome = "Internal" THEN <<<<>>, "evmcModuleError">>
    ELSE IF outcome = "Failure" THEN <<output, "Failure">>
    ELSE <<output, "nil">>

Top == stack[Len(stack)]
Pop == SubSeq(stack, 1, Len(stack) - 1)

\* lines 330-332: entry; the caller is the transaction (empty stack) or the
\* engine of the innermost Run, through hostContext.Call. The receiver is
\* the bridge whose CanRun accepts the code; code with the preamble is not
\* empty.
RunEnter(wasm, readOnlyArg, codeLen, codeSize, gas) ==
    /\ Len(stack) < MaxDepth
    /\ IF stack = <<>> THEN TRUE ELSE Top.pc = "Executing"
    /\ \E cap \in interpreters :
          /\ CanRun(cap, wasm)
          /\ wasm => codeLen # 0
          /\ stack' = Append(stack,
                [pc |-> "Entered", cap |-> cap, readOnly |-> readOnlyArg,
                 codeLen |-> codeLen, codeSize |-> codeSize,
                 gas |-> gas, setReadOnly |-> FALSE,
                 depthBefore |-> depth, readOnlyBefore |-> Flag(cap)])
    /\ depth' = depth + 1
    /\ last' = [op |-> "RunEnter", depthBefore |-> depth, depthAfter |-> depth + 1]
    /\ UNCHANGED <<loadVars, conf, blockNumber, hostVars, prev, readOnly,
                   ewasmReadOnly, interpreters>>

\* lines 335-337 and the deferred decrement
RunEmpty ==
    /\ stack # <<>>
    /\ Top.pc = "Entered"
    /\ CodeIsEmpty(Top.codeLen)
    /\ depth' = DeferredDepth(depth)
    /\ stack' = Pop
    /\ last' = [op |-> "RunReturn", path |-> "empty", frame |-> Top,
                level |-> Len(stack), ret |-> <<>>, err |-> "nil",
                executed |-> FALSE, gas |-> Top.gas,
                contractGas |-> Uint64(Top.gas),
                depthAfter |-> DeferredDepth(depth),
                readOnlyAfter |-> Flag(Top.cap)]
    /\ UNCHANGED <<loadVars, conf, blockNumber, hostVars, prev, readOnly,
                   ewasmReadOnly, interpreters>>

\* lines 339-364: up to the call of instance.Execute
RunExecute ==
    /\ stack # <<>>
    /\ Top.pc = "Entered"
    /\ ~CodeIsEmpty(Top.codeLen)
    /\ LET sets == RunSetsReadOnly(Top.readOnly, Flag(Top.cap))
           flag == IF sets THEN TRUE ELSE Flag(Top.cap)
       IN  /\ IF Top.cap = "CapabilityEVM1"
              THEN readOnly' = flag /\ UNCHANGED ewasmReadOnly
              ELSE ewasmReadOnly' = flag /\ UNCHANGED readOnly
           /\ stack' = [stack EXCEPT ![Len(stack)] =
                 [@ EXCEPT !.pc = "Executing", !.setReadOnly = sets]]
           /\ last' = [op |-> "Execute", level |-> Len(stack),
                       cap |-> Top.cap,
                       rev |-> getRevision(conf, blockNumber),
                       kind |-> RunKind(Top.codeSize),
                       readOnly |-> flag, depth |-> EngineDepth(depth),
                       gas |-> Top.gas]
    /\ UNCHANGED <<loadVars, conf, blockNumber, hostVars, prev, depth,
                   interpreters>>

\* lines 366-377 and the deferred functions, last registered first
EngineReturn(outcome, output, gasLeft) ==
    /\ stack # <<>>
    /\ Top.pc = "Executing"
    /\ LET res == RunResult(outcome, output)
           flag == DeferredReadOnly(Top, Flag(Top.cap))
       IN  /\ IF Top.cap = "CapabilityEVM1"
              THEN readOnly' = flag /\ UNCHANGED ewasmReadOnly
              ELSE ewasmReadOnly' = flag /\ UNCHANGED readOnly
           /\ depth' = DeferredDepth(depth)
           /\ stack' = Pop
           /\ last' = [op |-> "RunReturn", path |-> outcome, frame |-> Top,
                       level |-> Len(stack), ret |-> res[1], err |-> res[2],
                       executed |-> TRUE, gas |-> gasLeft,
                       engineOutput |-> output,
                       contractGas |-> ContractGas(gasLeft),
                       depthAfter |-> DeferredDepth(depth), readOnlyAfter |-> flag]
    /\ UNCHANGED <<loadVars, conf, blockNumber, hostVars, prev, interpreters>>

(***************************************************************************)
(* hostContext.Call                                                        *)
(***************************************************************************)
CallKinds == {"Call", "DelegateCall", "CallCode"}
CreateKinds == {"Create", "Create2"}
\* A kind outside the five defined ones reaches the default case.
Kinds == CallKinds \cup CreateKinds \cup {"Unknown"}
NoAddress == "0x0"                   \* common.Address{}
\* A salt of up to 128 bits as <<bits 64..127, bits 0..63>>.
Salts == {<<0, 0>>, <<0, 1>>, <<1, 0>>, <<1, 1>>}

\* int64(gasLeftU) of a uint64 given in limbs.
Int64(u) ==
    LET top == IF u[1] >= 2^15 THEN u[1] - Limb ELSE u[1]
    IN  ((top * Limb + u[2]) * Limb + u[3]) * Limb + u[4]

\* lines 277-278: saltUint256.SetUint64(salt.Uint64())
SaltUint256(salt) == <<0, salt[2]>>

\* lines 252-279: the EVM operation the kind is routed to
Callee(kind, static) ==
    CASE kind = "Call" -> IF static THEN "StaticCall" ELSE "Call"
      [] kind = "DelegateCall" -> "DelegateCall"
      [] kind = "CallCode" -> "CallCode"
      [] kind = "Create" -> "Create"
      [] kind = "Create2" -> "Create2"

\* What the EVM operation can return: <<output, createAddr, gasLeftU, err>>.
UnderErrs(kind) ==
    IF kind \in CreateKinds
    THEN {"nil", "ErrExecutionReverted", "ErrCodeStoreOutOfGas", "ErrOutOfGas"}
    ELSE {"nil", "ErrExecutionReverted", "ErrOutOfGas"}
UnderResults(kind) ==
    [output : Outputs,
     createAddr : IF kind \in CreateKinds THEN {"a1"} ELSE {NoAddress},
     gasLeftU : {Uint64(g) : g \in GasValues},
     err : UnderErrs(kind)]

\* lines 265-268: the code-store out-of-gas error of a pre-Homestead create
SuppressCodeStore_AnyRevision(kind, isHomestead, err) ==
    kind = "Create" /\ err = "ErrCodeStoreOutOfGas"
SuppressCodeStore(kind, isHomestead, err) ==
    kind = "Create" /\ ~isHomestead /\ err = "ErrCodeStoreOutOfGas"

\* lines 291-295: the error handed to the engine
MapError_Unmapped(err) ==
    IF err = "ErrExecutionReverted" THEN "Revert" ELSE err
MapError(err) ==
    IF err = "ErrExecutionReverted" THEN "Revert"
    ELSE IF err # "nil" THEN "Failure"
    ELSE "nil"

\* lines 251-299: <<output, gasLeft, createAddr, err>>
CallResult(kind, isHomestead, under) ==
    LET err1 == IF SuppressCodeStore(kind, isHomestead, under.err)
                THEN "nil" ELSE under.err
        output == IF kind \in CallKinds THEN under.output
                  ELSE IF err1 = "ErrExecutionReverted" THEN under.output
                  ELSE <<>>
    IN  <<output, Int64(under.gasLeftU), under.createAddr, MapError(err1)>>

\* The dispatcher is called with a kind and the EVM operation it is routed to
\* returns under; an unknown kind panics.
Call(kind, static, gas, salt, under) ==
    /\ last' = IF kind = "Unknown"
               THEN [op |-> "Call", kind |-> kind, panicked |-> TRUE]
               ELSE LET isHomestead == IsEnabled(conf, "EIP7", blockNumber)
                        res == CallResult(kind, isHomestead, under)
                    IN  [op |-> "Call", kind |-> kind, panicked |-> FALSE,
                         static |-> static, isHomestead |-> isHomestead,
                         callee |-> Callee(kind, static),
                         gasU |-> Uint64(gas),
                         salt |-> salt,
                         calleeSalt |-> IF kind = "Create2"
                                        THEN SaltUint256(salt) ELSE <<>>,
                         under |-> under,
                         output |-> res[1], gasLeft |-> res[2],
                         createAddr |-> res[3], err |-> res[4]]
    /\ UNCHANGED <<loadVars, conf, blockNumber, hostVars, runVars, prev>>

(***************************************************************************)
(* initEVMC, InitEVMCEVM, InitEVMCEwasm                                    *)
(***************************************************************************)
\* A config string is the sequence of its characters.
Configs ==
    {<<>>,
     <<"p">>,
     <<",", "a", "=", "1">>,
     <<"p", ",", "a", "=", "1">>,
     <<"p", ",", "a">>,
     <<"p", ",", "b", ",", "a", "=", "1">>}

\* What the module behind a path does: Load fails or not, the option names
\* SetOption rejects, the capabilities it has when loaded, and whether
\* setting option "a" switches CapabilityEWASM on.
LoadedEngines ==
    [loadErr : {FALSE},
     rejects : {{}, {<<"a">>}},
     caps : {{}, {"CapabilityEVM1"}, Capabilities},
     grants : BOOLEAN]
Engines ==
    LoadedEngines \cup
        {[loadErr |-> TRUE, rejects |-> {}, caps |-> {}, grants |-> FALSE]}

\* strings.Index(s, c): the 0-based index of the first c in s, or -1.
Index(s, c) ==
    IF \E i \in 1..Len(s) : s[i] = c
    THEN (CHOOSE i \in 1..Len(s) :
              s[i] = c /\ \A j \in 1..(i - 1) : s[j] # c) - 1
    ELSE -1

\* strings.Split(s, sep) for a one-character sep.
RECURSIVE Split(_, _)
Split(s, sep) ==
    LET idx == Index(s, sep)
    IN  IF idx < 0 THEN <<s>>
        ELSE <<SubSeq(s, 1, idx)>> \o Split(SubSeq(s, idx + 2, Len(s)), sep)

\* line 68: evmc.Load(path)
Load(engine, path) ==
    IF engine.loadErr THEN <<>>
    ELSE <<[path |-> path, caps |-> engine.caps, options |-> <<>>]>>

\* line 78: instance.SetOption(name, value) as <<instance, err>>
SetOption(engine, instance, name, value) ==
    IF name \in engine.rejects THEN <<instance, "err">>
    ELSE <<[instance EXCEPT
              !.options = Append(@, <<name, value>>),
              !.caps = IF engine.grants /\ name = <<"a">>
                       THEN @ \cup {"CapabilityEWASM"} ELSE @], "nil">>

\* lines 74-85: the option loop as <<instance, events>>
RECURSIVE SetOptions(_, _, _)
SetOptions(engine, instance, options) ==
    IF options = <<>> THEN <<instance, <<>>>>
    ELSE LET option == Head(options)
             idx == Index(option, "=")
         IN  IF idx >= 0
             THEN LET name == SubSeq(option, 1, idx)
                      value == SubSeq(option, idx + 2, Len(option))
                      set == SetOption(engine, instance, name, value)
                      rest == SetOptions(engine, set[1], Tail(options))
                  IN  <<rest[1],
                        <<<<"SetOption", name, value, set[2]>>>> \o rest[2]>>
             ELSE SetOptions(engine, instance, Tail(options))

\* lines 74, 87: the instance whose capability is tested is the one the
\* options were set on
CheckedInstance_BeforeOptions(loaded, configured) == loaded
CheckedInstance(loaded, configured) == configured

\* lines 60-92
initEVMC(cap, config, engine) ==
    LET options == Split(config, ",")
        path == options[1]
        loaded == Load(engine, path)
        set == SetOptions(engine, loaded[1], Tail(options))
        checked == CheckedInstance(loaded[1], set[1])
        hasCap == cap \in checked.caps
    IN  IF path = <<>>
        THEN [panicked |-> TRUE, cause |-> "path", events |-> <<>>,
              instance |-> <<>>]
        ELSE IF loaded = <<>>
        THEN [panicked |-> TRUE, cause |-> "load",
              events |-> <<<<"Load", path>>>>, instance |-> <<>>]
        ELSE [panicked |-> ~hasCap,
              cause |-> IF hasCap THEN "none" ELSE "capability",
              events |-> <<<<"Load", path>>>> \o set[2]
                             \o <<<<"HasCapability", cap, hasCap>>>>,
              instance |-> IF hasCap THEN <<set[1]>> ELSE <<>>]

InitRecord(cap, config, engine, res, handleBefore) ==
    [op |-> "initEVMC", cap |-> cap, config |-> config, engine |-> engine,
     panicked |-> res.panicked, cause |-> res.cause, events |-> res.events,
     handleBefore |-> handleBefore]

\* lines 52-54: a panic ends the process before the assignment
InitEVMCEVM(config, engine) ==
    /\ ~aborted
    /\ LET res == initEVMC("CapabilityEVM1", config, engine)
       IN  /\ evmModule' = IF res.panicked THEN evmModule ELSE res.instance
           /\ aborted' = res.panicked
           /\ last' = InitRecord("CapabilityEVM1", config, engine, res,
                                 evmModule)
    /\ UNCHANGED <<ewasmModule, conf, blockNumber, hostVars, runVars, prev>>

\* lines 56-58
InitEVMCEwasm(config, engine) ==
    /\ ~aborted
    /\ LET res == initEVMC("CapabilityEWASM", config, engine)
       IN  /\ ewasmModule' = IF res.panicked THEN ewasmModule ELSE res.instance
           /\ aborted' = res.panicked
           /\ last' = InitRecord("CapabilityEWASM", config, engine, res,
                                 ewasmModule)
    /\ UNCHANGED <<evmModule, conf, blockNumber, hostVars, runVars, prev>>

(***************************************************************************)
(* One transaction against the host context.                               *)
(***************************************************************************)
\* No Run is active and no bridge is read-only.
NilFrames ==
    /\ depth = 0 /\ readOnly = FALSE /\ ewasmReadOnly = FALSE /\ stack = <<>>
\* The EVM has the one bridge for CapabilityEVM1.
NilRun == NilFrames /\ interpreters = {"CapabilityEVM1"}
NilLoad == /\ evmModule = <<>> /\ ewasmModule = <<>> /\ aborted = FALSE
NilHost ==
    /\ committed = [s \in Slots |-> ZeroHash]
    /\ storage = committed
    /\ refund = 0
    /\ balance = [a \in Addrs |-> 0]
    /\ suicided = {}
    /\ clearCredit = [s \in Slots |-> 0]
    /\ sdCalls = [a \in Addrs |-> 0]
    /\ sdRefunds = [a \in Addrs |-> 0]
    /\ nops = 0

\* Every transition is active from genesis, except the two that decide
\* net-metering, which are active from genesis or never.
HostConfs ==
    {c \in [Transitions -> {<<>>, <<0>>}] :
        \A t \in Transitions \ {"EIP2200", "EIP1884"} : c[t] = <<0>>}

Init ==
    /\ conf \in HostConfs
    /\ blockNumber = 1
    /\ committed \in [Slots -> Values]
    /\ storage = committed
    /\ refund = 0
    /\ balance = [a \in Addrs |-> IF a = "a1" THEN 1 ELSE 2]
    /\ suicided = {}
    /\ clearCredit = [s \in Slots |-> 0]
    /\ sdCalls = [a \in Addrs |-> 0]
    /\ sdRefunds = [a \in Addrs |-> 0]
    /\ nops = 0
    /\ NilRun
    /\ NilLoad
    /\ last = NoOp
    /\ prev = NoOp

Next ==
    \/ \E addr \in Addrs, key \in Keys, value \in Values : SetStorage(addr, key, value)
    \/ \E addr \in Addrs, beneficiary \in Addrs : Selfdestruct(addr, beneficiary)

Spec == Init /\ [][Next]_vars

(***************************************************************************)
(* Nested Run invocations of one EVMC instance.                            *)
(***************************************************************************)
InitRun ==
    /\ conf \in HostConfs
    /\ blockNumber = 1
    /\ NilHost
    /\ NilRun
    /\ NilLoad
    /\ last = NoOp
    /\ prev = NoOp

NextRun ==
    \/ \E wasm \in BOOLEAN, readOnlyArg \in BOOLEAN,
          codeLen \in {0, 1}, codeSize \in {0, 1} :
          RunEnter(wasm, readOnlyArg, codeLen, codeSize, 1)
    \/ RunEmpty
    \/ RunExecute
    \/ \E outcome \in Outcomes, output \in Outputs, gasLeft \in GasValues :
          EngineReturn(outcome, output, gasLeft)

SpecRun == InitRun /\ [][NextRun]_vars

\* The engine invocation of the Run at nesting level k returns.
EngineReturnAt(k) ==
    /\ Len(stack) = k
    /\ \E outcome \in Outcomes, output \in Outputs, gasLeft \in GasValues :
          EngineReturn(outcome, output, gasLeft)

\* Run proceeds from entry to the engine call or the early return, and every
\* engine invocation returns; every transition is active from genesis.
InitRunFair == InitRun /\ conf = [t \in Transitions |-> <<0>>]

SpecRunFair ==
    /\ InitRunFair
    /\ [][NextRun]_vars
    /\ WF_vars(RunEmpty)
    /\ WF_vars(RunExecute)
    /\ \A k \in 1..MaxDepth : SF_vars(EngineReturnAt(k))

(***************************************************************************)
(* Nested Run invocations of an EVM with a bridge for each capability:     *)
(* the bridges share env and so the depth, and each has its own flag.      *)
(***************************************************************************)
InitBridges ==
    /\ conf = [t \in Transitions |-> <<0>>]
    /\ blockNumber = 1
    /\ NilHost
    /\ NilFrames
    /\ interpreters = Capabilities
    /\ NilLoad
    /\ last = NoOp
    /\ prev = NoOp

SpecBridges == InitBridges /\ [][NextRun]_vars

(***************************************************************************)
(* The revision resolver over configurations and block heights.            *)
(***************************************************************************)
Activations == {<<>>, <<0>>, <<100>>, <<101>>}
Heights == {99, 100, 101}
RevConfs == {c \in [Transitions -> Activations] : c["EIP2200"] = <<>>}

InitRev ==
    /\ conf \in RevConfs
    /\ blockNumber = 0
    /\ NilHost
    /\ NilRun
    /\ NilLoad
    /\ last = NoOp
    /\ prev = NoOp

NextRev == \E n \in Heights : ResolveRevision(n)

SpecRev == InitRev /\ [][NextRev]_vars

(***************************************************************************)
(* The block-hash window over current heights and requested numbers.       *)
(***************************************************************************)
HashHeights == {0, 1, 10, 255, 256, 257, 300}
HashOffsets == {-258, -257, -256, -255, -128, -2, -1, 0, 1}
HashNumbers(b) == {b + o : o \in HashOffsets} \cup {-1, 0}

InitHash ==
    /\ conf \in HostConfs
    /\ blockNumber \in HashHeights
    /\ NilHost
    /\ NilRun
    /\ NilLoad
    /\ last = NoOp
    /\ prev = NoOp

NextHash == \E number \in HashNumbers(blockNumber) : GetBlockHash(number)

SpecHash == InitHash /\ [][NextHash]_vars

(***************************************************************************)
(* The call dispatcher over kinds, revisions and results of the EVM.       *)
(***************************************************************************)
\* EIP7 is never active, active from genesis, or active from a later block.
CallConfs ==
    {c \in [Transitions -> {<<>>, <<0>>, <<100>>}] :
        \A t \in Transitions \ {"EIP7"} : c[t] = <<0>>}

InitCall ==
    /\ conf \in CallConfs
    /\ blockNumber = 1
    /\ NilHost
    /\ NilRun
    /\ NilLoad
    /\ last = NoOp
    /\ prev = NoOp

NextCall ==
    \E kind \in Kinds, static \in BOOLEAN, gas \in GasValues, salt \in Salts :
        \E under \in UnderResults(kind) : Call(kind, static, gas, salt, under)

SpecCall == InitCall /\ [][NextCall]_vars

(***************************************************************************)
(* Engine initialisation at start-up, over config strings and engines.     *)
(***************************************************************************)
InitLoad ==
    /\ conf = [t \in Transitions |-> <<0>>]
    /\ blockNumber = 1
    /\ NilHost
    /\ NilRun
    /\ NilLoad
    /\ last = NoOp
    /\ prev = NoOp

NextLoad ==
    \E config \in Configs, engine \in Engines :
        \/ InitEVMCEVM(config, engine)
        \/ InitEVMCEwasm(config, engine)

SpecLoad == InitLoad /\ [][NextLoad]_vars

(***************************************************************************)
(* Properties of EVMC.Run (SpecRun).                                       *)
(***************************************************************************)
\* C1: the depth is one more than before for each active Run (it equals the
\* number of active invocations, each entered at the depth of its level), it
\* is back at its pre-call value when a Run returns on any path, and it is at
\* its initial value 0 when no Run is active.
C1_DepthDiscipline ==
    /\ depth = Len(stack)
    /\ \A i \in 1..Len(stack) : stack[i].depthBefore = i - 1
    /\ last.op = "RunEnter" => depth = last.depthBefore + 1
    /\ last.op = "RunReturn" => depth = last.frame.depthBefore
    /\ stack = <<>> => depth = 0

\* A nested Run that hit an engine-internal error has returned to its caller.
C1_Witness ==
    /\ last.op = "RunReturn"
    /\ last.path = "Internal"
    /\ last.level >= 2
    /\ depth = last.frame.depthBefore
    /\ stack # <<>>

\* C2: while a Run that set the read-only flag is active the flag is set,
\* whatever its descendants were called with and however they returned; and
\* when a Run returns the flag has the value it had before that Run was entered.
C2_ReadOnlyDiscipline ==
    /\ (\E i \in 1..Len(stack) : stack[i].setReadOnly) => readOnly
    /\ last.op = "RunReturn" => readOnly = last.frame.readOnlyBefore

\* A descendant called with readOnly = false has failed and returned below an
\* ancestor that set the flag.
C2_Witness ==
    /\ last.op = "RunReturn"
    /\ last.path = "Failure"
    /\ ~last.frame.readOnly
    /\ last.frame.readOnlyBefore
    /\ \E i \in 1..Len(stack) : stack[i].setReadOnly
    /\ readOnly

(***************************************************************************)
(* Properties of the host context within one transaction (Spec).           *)
(***************************************************************************)
SameSlot(a, b) == a.addr = b.addr /\ a.key = b.key

\* Two successive SetStorage calls on one slot, c -> x -> c, the first on a
\* slot whose current value is its committed value c.
ResetPair ==
    /\ prev.op = "SetStorage"
    /\ last.op = "SetStorage"
    /\ SameSlot(prev, last)
    /\ prev.current = prev.committed
    /\ prev.value # prev.committed
    /\ last.value = prev.committed

\* C3: in net-metering mode the writes c -> x -> c change the refund counter
\* by exactly one reset refund: 19200 when c is zero, 4200 when c is nonzero.
C3_NetMeteringReset ==
    (hasNetStorageCostEIP /\ ResetPair) =>
        last.refundAfter - prev.refundBefore =
            IF prev.committed = ZeroHash
            THEN SstoreSetGasEIP2200 - SloadGasEIP2200
            ELSE SstoreResetGasEIP2200 - SloadGasEIP2200

\* c nonzero, cleared and restored: the clear-refund of the first write is
\* cancelled by the second.
C3_Witness ==
    /\ hasNetStorageCostEIP
    /\ ResetPair
    /\ prev.committed # ZeroHash
    /\ prev.value = ZeroHash
    /\ prev.refundAfter = prev.refundBefore + NetSstoreClearRefund
    /\ last.refundAfter = prev.refundBefore + 4200

RECURSIVE SumCredit(_)
SumCredit(S) ==
    IF S = {} THEN 0
    ELSE LET s == CHOOSE x \in S : TRUE
         IN  clearCredit[s] + SumCredit(S \ {s})

\* C4: the refund counter is never negative: no slot has had more
\* clear-refunds subtracted than added, and the counter holds at least the
\* clear-refunds still outstanding.
C4_RefundNeverNegative ==
    /\ refund >= 0
    /\ \A s \in Slots : clearCredit[s] >= 0
    /\ refund >= NetSstoreClearRefund * SumCredit(Slots)

\* A SetStorage has just subtracted the clear-refund.
C4_Witness ==
    /\ last.op = "SetStorage"
    /\ last.status = "ModifiedAgain"
    /\ last.refundAfter = last.refundBefore - NetSstoreClearRefund
    /\ refund >= 0

\* Two successive SetStorage calls with the same address, key and value.
RepeatedWrite ==
    /\ prev.op = "SetStorage"
    /\ last.op = "SetStorage"
    /\ SameSlot(prev, last)
    /\ prev.value = last.value

\* C7: the second of two equal SetStorage calls returns Unchanged and leaves
\* the refund counter and the slot as they were after the first.
C7_Idempotent ==
    RepeatedWrite =>
        /\ last.status = "Unchanged"
        /\ refund = prev.refundAfter
        /\ storage = last.storageBefore
        /\ GetStorage(last.addr, last.key) = last.value

\* The first call changed a dirty slot in net-metering mode.
C7_Witness ==
    /\ RepeatedWrite
    /\ hasNetStorageCostEIP
    /\ prev.status = "ModifiedAgain"
    /\ last.status = "Unchanged"

\* C8: after SetStorage(addr, key, v) GetStorage(addr, key) is v and every
\* other slot is as before, whatever status was returned.
C8_RoundTrip ==
    last.op = "SetStorage" =>
        /\ last.status \in {"Unchanged", "Added", "Modified", "Deleted", "ModifiedAgain"}
        /\ GetStorage(last.addr, last.key) = last.value
        /\ \A s \in Slots \ {<<last.addr, last.key>>} : storage[s] = last.storageBefore[s]

\* A slot has just been deleted while another slot holds a value.
C8_Witness ==
    /\ last.op = "SetStorage"
    /\ last.status = "Deleted"
    /\ last.current # ZeroHash
    /\ GetStorage(last.addr, last.key) = ZeroHash
    /\ \E s \in Slots \ {<<last.addr, last.key>>} : storage[s] # ZeroHash

\* C10 as stated: the first Selfdestruct of an address credits its full
\* balance, marks it destroyed and adds the refund; the second credits zero
\* and adds no refund.
C10_Original ==
    last.op = "Selfdestruct" =>
        /\ sdCalls[last.addr] = 1 =>
              /\ last.credited = last.balanceBefore[last.addr]
              /\ last.addr \in suicided
              /\ last.refundAfter = last.refundBefore + SelfdestructRefundGas
        /\ sdCalls[last.addr] = 2 =>
              /\ last.credited = 0
              /\ last.refundAfter = last.refundBefore
              /\ sdRefunds[last.addr] = 1

\* C10 (amended): every Selfdestruct credits the beneficiary with the balance
\* the address holds at that call, marks the address destroyed and leaves it
\* with no balance; the refund is added on the first call only; the second
\* call credits zero when it directly follows the first.
C10_Selfdestruct ==
    last.op = "Selfdestruct" =>
        /\ last.credited = last.balanceBefore[last.addr]
        /\ last.addr \in suicided
        /\ balance[last.addr] = 0
        /\ last.beneficiary # last.addr =>
              balance[last.beneficiary] =
                  last.balanceBefore[last.beneficiary] + last.credited
        /\ sdCalls[last.addr] = 1 =>
              last.refundAfter = last.refundBefore + SelfdestructRefundGas
        /\ sdCalls[last.addr] >= 2 => last.refundAfter = last.refundBefore
        /\ sdRefunds[last.addr] = 1
        /\ (sdCalls[last.addr] = 2 /\ prev.op = "Selfdestruct"
               /\ prev.addr = last.addr) => last.credited = 0

\* The second Selfdestruct of an address that was credited in between.
C10_Witness ==
    /\ last.op = "Selfdestruct"
    /\ sdCalls[last.addr] = 2
    /\ last.credited > 0
    /\ last.refundAfter = last.refundBefore
    /\ sdRefunds[last.addr] = 1

(***************************************************************************)
(* Properties of the revision resolver (SpecRev).                          *)
(***************************************************************************)
\* C5: resolving at a greater height never yields an earlier revision.
C5_Monotonic ==
    (prev.op = "getRevision" /\ last.op = "getRevision" /\ last.n > prev.n) =>
        RevOrd(last.rev) >= RevOrd(prev.rev)

\* The revision advanced from TangerineWhistle to a later one.
C5_Witness ==
    /\ prev.op = "getRevision"
    /\ last.op = "getRevision"
    /\ last.n > prev.n
    /\ prev.rev = "TangerineWhistle"
    /\ RevOrd(last.rev) > RevOrd(prev.rev)

\* EIP150 and EIP155 both activate at height 100 and no later transition is
\* enabled at the heights resolved.
Scenario100 ==
    /\ conf["EIP150"] = <<100>>
    /\ conf["EIP155"] = <<100>>
    /\ \A t \in {"EIP198", "EIP145", "EIP1283Disable", "EIP1884"} :
          ~IsEnabled(conf, t, 100)

\* C6 as stated: SpuriousDragon at height 100, TangerineWhistle at height 99.
C6_Original ==
    (Scenario100 /\ last.op = "getRevision") =>
        /\ last.n = 100 => last.rev = "SpuriousDragon"
        /\ last.n = 99 => last.rev = "TangerineWhistle"

\* C6 (amended): SpuriousDragon at height 100; at height 99, where neither
\* transition is active yet, Homestead if EIP7 is enabled and else Frontier.
C6_Scenario ==
    (Scenario100 /\ last.op = "getRevision") =>
        /\ last.n = 100 => last.rev = "SpuriousDragon"
        /\ last.n = 99 => /\ last.rev \in {"Homestead", "Frontier"}
                          /\ last.rev = "Homestead" <=> IsEnabled(conf, "EIP7", 99)

\* Resolved at 100 and then at 99, with EIP7 active from genesis.
C6_Witness ==
    /\ Scenario100
    /\ prev.op = "getRevision" /\ prev.n = 100 /\ prev.rev = "SpuriousDragon"
    /\ last.op = "getRevision" /\ last.n = 99 /\ last.rev = "Homestead"

(***************************************************************************)
(* Properties of the block-hash window (SpecHash).                         *)
(***************************************************************************)
\* h is the hash the chain holds for block n.
IsHashOfBlock(h, n) == n >= 0 /\ h = GetHash(<<0, 0, 0, n>>)

ChangingWrite == last.op = "SetStorage" /\ last.value # last.current
RefundDelta == last.refundAfter - last.refundBefore

\* C11: in legacy mode a changing write is classified from the current and
\* new values only: current zero -> Added, refund unchanged; current nonzero
\* and new zero -> Deleted, refund + SstoreRefundGas; both nonzero ->
\* Modified, refund unchanged. No legacy write subtracts from the refund
\* counter or returns ModifiedAgain.
C11_LegacyClassification ==
    (~hasNetStorageCostEIP /\ last.op = "SetStorage") =>
        /\ last.status # "ModifiedAgain"
        /\ RefundDelta >= 0
        /\ ChangingWrite =>
              /\ last.current = ZeroHash =>
                    last.status = "Added" /\ RefundDelta = 0
              /\ (last.current # ZeroHash /\ last.value = ZeroHash) =>
                    last.status = "Deleted" /\ RefundDelta = SstoreRefundGas
              /\ (last.current # ZeroHash /\ last.value # ZeroHash) =>
                    last.status = "Modified" /\ RefundDelta = 0

\* With EIP2200 alone enabled, a slot already changed in this transaction is
\* cleared: Deleted with the legacy refund.
C11_Witness ==
    /\ hasEIP2200 /\ ~hasEIP1884
    /\ ChangingWrite
    /\ last.committed # last.current
    /\ last.status = "Deleted"
    /\ RefundDelta = SstoreRefundGas

\* A net-metering write to a slot already changed in this transaction whose
\* committed value is nonzero.
DirtyWrite ==
    /\ hasNetStorageCostEIP
    /\ ChangingWrite
    /\ last.committed # last.current
    /\ last.committed # ZeroHash
\* The reset refund such a write earns when it restores the committed value.
ResetPart ==
    IF last.value = last.committed
    THEN SstoreResetGasEIP2200 - SloadGasEIP2200
    ELSE 0

\* C16 as stated: a write that returns the slot to zero subtracts the
\* clear-refund; a write that un-clears a cleared slot adds it.
C16_Original ==
    DirtyWrite =>
        /\ last.value = ZeroHash => RefundDelta = 0 - NetSstoreClearRefund
        /\ last.current = ZeroHash =>
              RefundDelta = NetSstoreClearRefund + ResetPart

\* C16 (amended): a write that un-clears a cleared slot (current zero)
\* subtracts the clear-refund granted when it was cleared; a write that
\* clears the slot (new value zero) adds the clear-refund; any other such
\* write leaves the clear-refund alone.
C16_DirtyClearRefund ==
    DirtyWrite =>
        /\ last.status = "ModifiedAgain"
        /\ last.current = ZeroHash =>
              RefundDelta = ResetPart - NetSstoreClearRefund
        /\ last.value = ZeroHash => RefundDelta = NetSstoreClearRefund
        /\ (last.current # ZeroHash /\ last.value # ZeroHash) =>
              RefundDelta = ResetPart

\* A cleared slot is set to a value other than its committed one: the
\* clear-refund is taken back.
C16_Witness ==
    /\ DirtyWrite
    /\ last.current = ZeroHash
    /\ last.value # last.committed
    /\ RefundDelta = 0 - NetSstoreClearRefund
    /\ prev.op = "SetStorage" /\ SameSlot(prev, last)
    /\ prev.status = "Deleted"

\* C20: in net-metering mode the write 0 -> c on a slot whose committed
\* value c is nonzero applies both adjustments: the refund counter changes by
\* the reset-to-existing refund minus the clear-refund.
C20_BothAdjustments ==
    (DirtyWrite /\ last.current = ZeroHash /\ last.value = last.committed) =>
        /\ RefundDelta =
              (SstoreResetGasEIP2200 - SloadGasEIP2200) - NetSstoreClearRefund
        /\ last.status = "ModifiedAgain"

\* c -> 0 -> c: the second write takes back 15000 and grants 4200.
C20_Witness ==
    /\ DirtyWrite
    /\ last.current = ZeroHash
    /\ last.value = last.committed
    /\ RefundDelta = 4200 - 15000
    /\ refund = last.refundBefore + RefundDelta
    /\ refund >= 0

\* The reset-refund pairs a net-metering write can select, over every
\* configuration of the two features at the current block.
NetModeResetPairs ==
    {ResetRefundsFor(c, blockNumber) :
        c \in {x \in HostConfs : NetModeFor(x, blockNumber)}}

\* C17: net-metering mode is entered only when EIP2200 and EIP1884 are both
\* enabled, and within it both reset-refund pairs, <<19800, 4800>> and
\* <<19200, 4200>>, are selected by some configuration.
C17_Original ==
    /\ \A c \in HostConfs :
          NetModeFor(c, blockNumber) =>
              IsEnabled(c, "EIP2200", blockNumber) /\ IsEnabled(c, "EIP1884", blockNumber)
    /\ hasNetStorageCostEIP = NetModeFor(conf, blockNumber)
    /\ NetModeResetPairs =
          {<<NetSstoreResetClearRefund, NetSstoreResetRefund>>,
           <<SstoreSetGasEIP2200 - SloadGasEIP2200,
             SstoreResetGasEIP2200 - SloadGasEIP2200>>}

(***************************************************************************)
(* The resolver over arbitrary predicate values (SpecRev).                 *)
(***************************************************************************)
\* The revision the claim binds to each transition.
BoundRevision ==
    [t \in Transitions \ {"EIP2200"} |->
        CASE t = "EIP1884" -> "Istanbul"
          [] t = "EIP1283Disable" -> "Petersburg"
          [] t = "EIP145" -> "Constantinople"
          [] t = "EIP198" -> "Byzantium"
          [] t = "EIP155" -> "SpuriousDragon"
          [] t = "EIP150" -> "TangerineWhistle"
          [] t = "EIP7" -> "Homestead"]
EnabledAt(n) == {t \in DOMAIN BoundRevision : IsEnabled(conf, t, n)}

\* C19: whatever the seven predicates answer, consistent or not, getRevision
\* returns the revision of the most recent enabled transition, Frontier when
\* none is enabled, and the same revision when asked again at the same height.
C19_MostRecentEnabled ==
    last.op = "getRevision" =>
        /\ EnabledAt(last.n) = {} => last.rev = "Frontier"
        /\ EnabledAt(last.n) # {} =>
              \E t \in EnabledAt(last.n) :
                  /\ last.rev = BoundRevision[t]
                  /\ \A u \in EnabledAt(last.n) :
                        RevOrd(BoundRevision[u]) <= RevOrd(last.rev)
        /\ (prev.op = "getRevision" /\ prev.n = last.n) => prev.rev = last.rev

\* An inconsistent configuration: EIP145 and EIP150 enabled, EIP198, EIP155
\* and EIP7 not.
C19_Witness ==
    /\ last.op = "getRevision"
    /\ EnabledAt(last.n) = {"EIP145", "EIP150"}
    /\ last.rev = "Constantinople"
    /\ prev.op = "getRevision" /\ prev.n = last.n

(***************************************************************************)
(* Outcomes and frame life cycle of EVMC.Run (SpecRun, SpecRunFair).       *)
(***************************************************************************)
\* C14: whatever the engine reports, Run returns: a Revert as
\* ErrExecutionReverted with the engine's output, an internal error as the
\* wrapped module error with no output, any other error unchanged; the
\* frame's gas is the engine's gas-left, and the depth and the read-only flag
\* are as before the call.
C14_RunOutcomes ==
    (last.op = "RunReturn" /\ last.executed) =>
        /\ last.path = "Revert" =>
              last.err = "ErrExecutionReverted" /\ last.ret = last.engineOutput
        /\ last.path = "Internal" =>
              last.err = "evmcModuleError" /\ last.ret = <<>>
        /\ last.path = "Failure" =>
              last.err = "Failure" /\ last.ret = last.engineOutput
        /\ last.path = "Success" =>
              last.err = "nil" /\ last.ret = last.engineOutput
        /\ last.contractGas = <<0, 0, 0, last.gas>>
        /\ depth = last.frame.depthBefore
        /\ readOnly = last.frame.readOnlyBefore

\* A nested Run that had set the read-only flag got an internal error with
\* output from the engine.
C14_Witness ==
    /\ last.op = "RunReturn"
    /\ last.path = "Internal"
    /\ last.engineOutput # <<>>
    /\ last.ret = <<>>
    /\ last.gas = 1
    /\ last.frame.setReadOnly
    /\ ~readOnly
    /\ last.level >= 2

\* The per-frame state reached between the engine's return and the exit.
FrameOutcome(path) ==
    CASE path = "Success" -> "Returned"
      [] path = "Revert" -> "Reverted"
      [] path \in {"Failure", "Internal"} -> "Failed"
      [] OTHER -> "none"

\* One step of the frame state machine: a new frame is Entered; the innermost
\* frame goes Entered -> Executing (code not empty); it goes Entered -> Exited
\* (code empty: empty output, no error, no engine call, flag and gas
\* untouched); or it goes Executing -> Returned / Reverted / Failed -> Exited.
FrameStep ==
    \/ /\ Len(stack') = Len(stack) + 1
       /\ SubSeq(stack', 1, Len(stack)) = stack
       /\ stack'[Len(stack')].pc = "Entered"
       /\ IF stack = <<>> THEN TRUE ELSE Top.pc = "Executing"
    \/ /\ stack # <<>>
       /\ Len(stack') = Len(stack)
       /\ Pop = SubSeq(stack', 1, Len(stack) - 1)
       /\ Top.pc = "Entered" /\ stack'[Len(stack')].pc = "Executing"
       /\ Top.codeLen # 0
       /\ last'.op = "Execute"
    \/ /\ stack # <<>>
       /\ stack' = Pop
       /\ Top.pc = "Entered"
       /\ Top.codeLen = 0
       /\ last'.op = "RunReturn" /\ ~last'.executed
       /\ last'.ret = <<>> /\ last'.err = "nil"
       /\ readOnly' = readOnly
       /\ last'.contractGas = <<0, 0, 0, Top.gas>>
    \/ /\ stack # <<>>
       /\ stack' = Pop
       /\ Top.pc = "Executing"
       /\ Top.codeLen # 0
       /\ last'.op = "RunReturn" /\ last'.executed
       /\ FrameOutcome(last'.path) \in {"Returned", "Reverted", "Failed"}

\* C18: every step of every Run is a step of the frame state machine, and
\* every frame that is entered exits, given that engine invocations return.
C18_FrameMachine ==
    /\ [][FrameStep]_vars
    /\ \A k \in 1..MaxDepth : (Len(stack) >= k) ~> (Len(stack) < k)

\* A nested Run on empty code has returned below a read-only ancestor.
C18_Witness ==
    /\ last.op = "RunReturn"
    /\ last.path = "empty"
    /\ ~last.executed
    /\ last.level >= 2
    /\ last.frame.readOnly
    /\ readOnly
    /\ stack # <<>>

(***************************************************************************)
(* Properties of the call dispatcher (SpecCall).                           *)
(***************************************************************************)
Dispatched == last.op = "Call" /\ ~last.panicked

\* C12 as stated: for each of the five kinds an underlying revert is
\* returned as Revert with the underlying output, any other underlying
\* failure as Failure with empty output, success with no error, and no other
\* error value is returned.
C12_Original ==
    Dispatched =>
        /\ last.under.err = "ErrExecutionReverted" =>
              last.err = "Revert" /\ last.output = last.under.output
        /\ last.under.err \notin {"nil", "ErrExecutionReverted"} =>
              last.err = "Failure" /\ last.output = <<>>
        /\ last.under.err = "nil" => last.err = "nil"
        /\ last.err \in {"nil", "Revert", "Failure"}

\* C12 (amended): a revert is returned as Revert with the underlying output;
\* any other underlying failure is returned as Failure, except the code-store
\* out-of-gas error of a pre-Homestead Create, which is returned as success;
\* the output of a failure is empty for Create and Create2 and is the
\* underlying output, passed through, for Call, DelegateCall and CallCode;
\* success is returned with no error; no other error value is returned.
C12_ErrorMapping ==
    Dispatched =>
        /\ last.under.err = "ErrExecutionReverted" =>
              last.err = "Revert" /\ last.output = last.under.output
        /\ last.under.err \notin {"nil", "ErrExecutionReverted"} =>
              /\ last.err =
                    IF /\ last.kind = "Create"
                       /\ ~last.isHomestead
                       /\ last.under.err = "ErrCodeStoreOutOfGas"
                    THEN "nil" ELSE "Failure"
              /\ last.output =
                    IF last.kind \in CallKinds THEN last.under.output ELSE <<>>
        /\ last.under.err = "nil" => last.err = "nil"
        /\ last.err \in {"nil", "Revert", "Failure"}

\* A DelegateCall whose callee ran out of gas after producing output.
C12_Witness ==
    /\ Dispatched
    /\ last.kind = "DelegateCall"
    /\ last.under.err = "ErrOutOfGas"
    /\ last.under.output # <<>>
    /\ last.err = "Failure"
    /\ last.output = last.under.output

\* A create failed with the code-store out-of-gas error.
CodeStoreFailure ==
    /\ Dispatched
    /\ last.kind \in CreateKinds
    /\ last.under.err = "ErrCodeStoreOutOfGas"

\* C13 as stated: for Create and Create2, before Homestead the code-store
\* out-of-gas error is reported as success with the created address, and
\* from Homestead on as Failure.
C13_Original ==
    CodeStoreFailure =>
        IF ~last.isHomestead
        THEN last.err = "nil" /\ last.createAddr = last.under.createAddr
        ELSE last.err = "Failure"

\* C13 (amended): for Create, before Homestead the code-store out-of-gas
\* error is reported as success with the created address, and from Homestead
\* on as Failure; for Create2 it is reported as Failure on every revision.
C13_CodeStoreCarveOut ==
    CodeStoreFailure =>
        /\ last.createAddr = last.under.createAddr
        /\ last.output = <<>>
        /\ last.err =
              IF last.kind = "Create" /\ ~last.isHomestead
              THEN "nil" ELSE "Failure"

\* A Create2 before Homestead whose code store ran out of gas.
C13_Witness ==
    /\ CodeStoreFailure
    /\ last.kind = "Create2" /\ ~last.isHomestead
    /\ last.err = "Failure"
    /\ last.createAddr = "a1"

(***************************************************************************)
(* Properties of engine initialisation (SpecLoad).                         *)
(***************************************************************************)
Handle(cap) == IF cap = "CapabilityEVM1" THEN evmModule ELSE ewasmModule

\* The key=value options among the trailing segments of a config.
KeyValueOptions(config) ==
    LET options == Split(config, ",")
    IN  {i \in 2..Len(options) : Index(options[i], "=") >= 0}

\* The capabilities of the engine once the options it accepted are set.
ConfiguredCaps(rec) ==
    rec.engine.caps \cup
        (IF /\ rec.engine.grants
            /\ \E i \in 1..Len(rec.events) :
                   /\ rec.events[i][1] = "SetOption"
                   /\ rec.events[i][2] = <<"a">>
                   /\ rec.events[i][4] = "nil"
         THEN {"CapabilityEWASM"} ELSE {})

\* C15: initialisation is fatal exactly when the load path is empty, the
\* module fails to load, or the engine lacks the requested capability once
\* its options are set; a fatal initialisation leaves the module handle as
\* it was (unassigned at start-up), a successful one assigns an instance that
\* has the capability; a rejected option is never fatal; and the capability
\* is tested last, after one SetOption per trailing key=value option.
C15_FatalOrUsable ==
    /\ \A cap \in Capabilities :
           Handle(cap) # <<>> => cap \in Handle(cap)[1].caps
    /\ last.op = "initEVMC" =>
        LET noPath == last.config = <<>> \/ Head(last.config) = ","
            n == Len(last.events)
            sets == {i \in 1..n : last.events[i][1] = "SetOption"}
        IN  /\ last.panicked <=>
                  \/ noPath
                  \/ last.engine.loadErr
                  \/ last.cap \notin ConfiguredCaps(last)
            /\ aborted = last.panicked
            /\ last.panicked => Handle(last.cap) = last.handleBefore
            /\ ~last.panicked =>
                  /\ Handle(last.cap) # <<>>
                  /\ Handle(last.cap)[1].caps = ConfiguredCaps(last)
            /\ \A i \in 1..n :
                  last.events[i][1] = "HasCapability" =>
                      /\ i = n
                      /\ Cardinality(sets) =
                             Cardinality(KeyValueOptions(last.config))
                      /\ \A j \in sets : j < i

\* An engine that rejected an option and was started all the same.
C15_Witness ==
    /\ last.op = "initEVMC"
    /\ ~last.panicked
    /\ last.cap = "CapabilityEVM1"
    /\ last.config = <<"p", ",", "b", ",", "a", "=", "1">>
    /\ last.events = <<<<"Load", <<"p">>>>,
                       <<"SetOption", <<"a">>, <<"1">>, "err">>,
                       <<"HasCapability", "CapabilityEVM1", TRUE>>>>
    /\ evmModule # <<>>
    /\ evmModule[1].options = <<>>

(***************************************************************************)
(* The salt of a Create2 dispatch (SpecCall).                              *)
(***************************************************************************)
\* C21 as stated: a Create2 dispatch passes the caller's salt to the create2
\* operation unchanged, for every salt.
C21_Original ==
    (Dispatched /\ last.kind = "Create2") => last.calleeSalt = last.salt

(***************************************************************************)
(* The lookups made by GetBlockHash (SpecHash).                            *)
(***************************************************************************)
\* C22 as stated: the hash lookup is invoked only with a number n such that
\* 0 <= n < b, and every negative n yields the zero hash.
C22_Original ==
    last.op = "GetBlockHash" =>
        /\ last.lookup # <<>> =>
              /\ 0 <= last.number /\ last.number < last.b
              /\ last.lookup[1] = <<0, 0, 0, last.number>>
        /\ last.number < 0 => last.result = NoHash

(***************************************************************************)
(* The status of a net-metering SetStorage (Spec).                         *)
(***************************************************************************)
\* C23: in net-metering mode a changing write returns Added, Deleted or
\* Modified exactly when committed = current, and ModifiedAgain exactly when
\* committed # current, whatever the new value is.
C23_StatusByCleanness ==
    (hasNetStorageCostEIP /\ ChangingWrite) =>
        /\ last.status \in {"Added", "Deleted", "Modified", "ModifiedAgain"}
        /\ last.status \in {"Added", "Deleted", "Modified"} <=>
              last.committed = last.current
        /\ last.status = "ModifiedAgain" <=> last.committed # last.current

\* A changed slot was cleared to zero and then restored to its committed
\* value: both writes return ModifiedAgain.
C23_Witness ==
    /\ hasNetStorageCostEIP
    /\ ChangingWrite
    /\ last.committed # ZeroHash
    /\ last.current = ZeroHash
    /\ last.value = last.committed
    /\ last.status = "ModifiedAgain"
    /\ prev.op = "SetStorage"
    /\ SameSlot(prev, last)
    /\ prev.value = ZeroHash
    /\ prev.committed # prev.current
    /\ prev.status = "ModifiedAgain"

(***************************************************************************)
(* The arguments of the engine invocation (SpecBridges).                   *)
(***************************************************************************)
\* Some active Run in levels, this one included, was called with readOnly.
CalledReadOnly(levels) == \E i \in levels : stack[i].readOnly

====
